---- MODULE Spec2Model ----
(***************************************************************************)
(* Model of the ATI force/torque sensor driver                             *)
(* (src/src/ati_ft_sensor_tcp/ati_ft_sensor_tcp.py, class                  *)
(* ATIForceTorqueSensor).                                                  *)
(*                                                                         *)
(* The state is the driver object's fields, the state of its socket, the   *)
(* bytes and commands in flight on the TCP connection, and a record of the *)
(* last call the application made and what it returned.  One action per    *)
(* public method; the device answering a command late is the only          *)
(* environment action.                                                     *)
(*                                                                         *)
(* Conventions                                                             *)
(*   - Python None is the empty sequence, a present value v is <<v>>.      *)
(*   - A physical value (Python float) is an exact rational <<num, den>>   *)
(*     in lowest terms with den > 0.                                       *)
(*   - int.from_bytes(b, signed=True) is taken with the default            *)
(*     byteorder "big" (Python >= 3.11).                                   *)
(*                                                                         *)
(* Scope: recv either returns bytes or times out, and sendall fails only   *)
(* on a socket that is not connected; a connection reset, an end of file   *)
(* and a send timeout are not modelled.                                    *)
(***************************************************************************)
EXTENDS Integers, Sequences, FiniteSets, TLC

\* ------------------------------------------------------------------ bounds
\* Commands the application may have put on the wire before it stops calling.
MaxSends == 4

\* Commands sent in a run of the decoding specification.
MaxDecodeSends == 3

\* ------------------------------------------------------- program constants
BUFFER_SIZE == 1024
MESSAGE_LENGTH == 20
HEADER_LENGTH == 2
SCALING_FACTOR_BYTE_OFFSET == 12
F_BYTE_OFFSET == 4
T_BYTE_OFFSET == 10

None == <<>>
Some(v) == <<v>>

\* ------------------------------------------------------------- arithmetic
Abs(n) == IF n < 0 THEN -n ELSE n

RECURSIVE Gcd(_, _)
Gcd(a, b) == IF b = 0 THEN a ELSE Gcd(b, a % b)

\* The rational n/d (d # 0) in lowest terms with a positive denominator.
Rat(n, d) ==
    LET g == Gcd(Abs(n), Abs(d))
        s == IF d < 0 THEN -1 ELSE 1
    IN  << (s * n) \div g, (s * d) \div g >>

RatSub(a, b) == Rat(a[1] * b[2] - b[1] * a[2], a[2] * b[2])
RatAdd(a, b) == Rat(a[1] * b[2] + b[1] * a[2], a[2] * b[2])

Zero == <<0, 1>>
Zero3 == <<Zero, Zero, Zero>>

\* ------------------------------------------------------------ byte strings
\* Python slice data[a:b]: 0-based, half-open, clamped to the length.
Slice(bs, a, b) ==
    LET hi == IF b < Len(bs) THEN b ELSE Len(bs)
    IN  IF a >= hi THEN <<>> ELSE SubSeq(bs, a + 1, hi)

RECURSIVE FromBytesAcc(_, _)
FromBytesAcc(bs, acc) ==
    IF bs = <<>> THEN acc ELSE FromBytesAcc(Tail(bs), acc * 256 + Head(bs))

\* int.from_bytes(bs, signed=True): big-endian two's complement over Len(bs)
\* bytes; the empty string is 0.
int_from_bytes(bs) ==
    IF bs = <<>> THEN 0
    ELSE FromBytesAcc(Tail(bs), IF Head(bs) >= 128 THEN Head(bs) - 256 ELSE Head(bs))

\* A Python str of hex digits is the sequence of its digits' values.
\* bytes.fromhex(hex): every two digits are one byte, high digit first.
RECURSIVE bytes_fromhex(_)
bytes_fromhex(hex) ==
    IF Len(hex) < 2 THEN <<>>
    ELSE <<hex[1] * 16 + hex[2]>> \o bytes_fromhex(SubSeq(hex, 3, Len(hex)))

\* str * n
RECURSIVE str_repeat(_, _)
str_repeat(str, n) == IF n <= 0 THEN <<>> ELSE str \o str_repeat(str, n - 1)

\* The command codes the driver passes: "01" and "00".
CALIBRATION_CODE == <<0, 1>>
SAMPLE_CODE == <<0, 0>>

\* A command padded with one byte too many.
construct_command_overlong(command_code) ==
    bytes_fromhex(command_code) \o bytes_fromhex(str_repeat(<<0, 0>>, MESSAGE_LENGTH))

\* _construct_command: the code's bytes, then zero padding to MESSAGE_LENGTH.
construct_command(command_code) ==
    LET command == bytes_fromhex(command_code)
        reserved == bytes_fromhex(str_repeat(<<0, 0>>, MESSAGE_LENGTH - Len(command)))
    IN  command \o reserved

\* ------------------------------------------------------------ the device
\* Calibration responses the device (or a TCP stream that delivers only part
\* of one) can hand to recv().
CalFrameA ==
    <<0, 0, 1, 2,  0, 0, 3, 232,  0, 0, 3, 232,
      0, 10, 0, 10, 0, 10,  0, 5, 0, 5, 0, 5>>
CalFrameZeroDiv ==
    <<0, 0, 1, 2,  0, 0, 0, 0,  0, 0, 3, 232,
      0, 10, 0, 10, 0, 10,  0, 5, 0, 5, 0, 5>>
CalFrameShort == Slice(CalFrameA, 0, 14)
CalFrameTiny == Slice(CalFrameA, 0, 3)
CalFrames == {CalFrameA, CalFrameZeroDiv, CalFrameShort, CalFrameTiny}

\* Sample responses: force counts at bytes 4..9, torque counts at 10..15.
SampleFrame1 == <<0, 0, 0, 0,  0, 100, 0, 100, 0, 100,  0, 50, 0, 50, 0, 50>>
SampleFrame2 == <<0, 0, 0, 0,  255, 254, 0, 3, 0, 0,  0, 1, 255, 255, 1, 44>>
SampleFrames == {SampleFrame1, SampleFrame2}

\* What the device answers to a command with the given opcode.
Replies(opcode) == IF opcode = 1 THEN CalFrames ELSE SampleFrames

\* ---------------------------------------------------------------- state
VARIABLES
    connected,          \* self.connected
    sock,               \* self.sock: "created", "connected" or "closed"
    F_bias, T_bias,     \* self.F_bias, self.T_bias
    scaling_factors_F, scaling_factors_T,
    force_units, torque_units,
    counts_per_force, counts_per_torque,
    sent,               \* every command written to the connection, in order
    pending,            \* opcodes of commands the device has not answered yet
    rxbuf,              \* bytes received on the connection and not yet read
    call,               \* the application's last call and its outcome
    prev                \* the call before it, and the bias it left

calvars == <<scaling_factors_F, scaling_factors_T, force_units, torque_units,
             counts_per_force, counts_per_torque>>
biasvars == <<F_bias, T_bias>>
netvars == <<sock, sent, pending, rxbuf>>
vars == <<connected, calvars, biasvars, netvars, call, prev>>

\* The transport as one value, threaded through a method's socket calls.
Transport == [sock |-> sock, sent |-> sent, pending |-> pending, rxbuf |-> rxbuf]

\* The calibration fields a decode reads, and the bias it subtracts.
Calibration ==
    [scaling_factors_F |-> scaling_factors_F, scaling_factors_T |-> scaling_factors_T,
     counts_per_force |-> counts_per_force, counts_per_torque |-> counts_per_torque]
Bias == [F |-> F_bias, T |-> T_bias]

\* ------------------------------------------------------- socket primitives
\* sock.close(): the connection is gone, and with it whatever was in flight.
sock_close(t) == [t EXCEPT !.sock = "closed", !.pending = <<>>, !.rxbuf = <<>>]

\* sock.sendall(message) on a connected socket.
sock_sendall(t, message) ==
    [t EXCEPT !.sent = Append(t.sent, message),
              !.pending = Append(t.pending, message[1])]

\* sock.recv(BUFFER_SIZE) bounded by the timeout.  arrive is what the device
\* delivers while recv blocks: <<>> (nothing) or its answer to the oldest
\* unanswered command.  recv returns whatever the stream holds, or times out
\* when it holds nothing.
sock_recv(t, arrive) ==
    LET buf == t.rxbuf \o arrive
        pend == IF arrive = <<>> THEN t.pending ELSE Tail(t.pending)
    IN  IF buf = <<>>
        THEN [kind |-> "timeout", data |-> <<>>, t |-> t]
        ELSE [kind |-> "data", data |-> Slice(buf, 0, BUFFER_SIZE),
              t |-> [t EXCEPT !.pending = pend,
                              !.rxbuf = Slice(buf, BUFFER_SIZE, Len(buf))]]

\* What can arrive while a call that has just sent `opcode` blocks in recv.
Arrivals(t, opcode) == {<<>>} \cup Replies(Head(Append(t.pending, opcode)))

\* ------------------------------------------------------ method outcomes
\* What a method did: how it ended (ret is "return" or "raise", err the
\* exception), what it returned (F, T for get_data; cal for
\* get_calibration_info), how its recv ended (rcv, data), the socket calls it
\* made in order (io), and the transport it left (t).
Outcome(ret, err, F, T, cal, rcv, data, io, t) ==
    [ret |-> ret, err |-> err, F |-> F, T |-> T, cal |-> cal,
     rcv |-> rcv, data |-> data, io |-> io, t |-> t]

Raise(err, rcv, data, io, t) == Outcome("raise", err, None, None, None, rcv, data, io, t)

\* ------------------------------------------------- get_calibration_info
\* A scaling factor read with a stride of one byte instead of two.
scaling_factor_stride1(response_data, i) ==
    int_from_bytes(Slice(response_data, SCALING_FACTOR_BYTE_OFFSET + i,
                         SCALING_FACTOR_BYTE_OFFSET + i + 2))

\* The i-th (0-based, `for i in range(6)`) scaling factor of the response.
scaling_factor(response_data, i) ==
    int_from_bytes(Slice(response_data, SCALING_FACTOR_BYTE_OFFSET + i * 2,
                         SCALING_FACTOR_BYTE_OFFSET + i * 2 + 2))

\* The parse of the calibration response.  Indexing a byte past the end
\* raises IndexError; slices past the end are silently shorter.
parse_calibration(response_data) ==
    IF Len(response_data) <= HEADER_LENGTH + 1
    THEN [ok |-> FALSE, err |-> "IndexError", cal |-> None]
    ELSE [ok |-> TRUE, err |-> "none",
          cal |-> << response_data[HEADER_LENGTH + 1],
                     response_data[HEADER_LENGTH + 2],
                     int_from_bytes(Slice(response_data, HEADER_LENGTH + 2,
                                          HEADER_LENGTH + 2 + 4)),
                     int_from_bytes(Slice(response_data, HEADER_LENGTH + 2 + 4,
                                          HEADER_LENGTH + 2 + 4 + 4)),
                     [i \in 1..3 |-> scaling_factor(response_data, i - 1)],
                     [i \in 1..3 |-> scaling_factor(response_data, i + 2)] >>]

\* A not-connected branch that raises without closing the socket.
calibration_not_connected_noclose(t) ==
    Raise("NotConnected", "none", <<>>, <<>>, t)

\* The `if not self.connected` branch: close the socket and raise.
calibration_not_connected(t) ==
    Raise("NotConnected", "none", <<>>, <<"close">>, sock_close(t))

\* A calibration timeout handler that forgets to close the socket.
calibration_timeout_noclose(t) ==
    Raise("CalibrationTimeout", "timeout", <<>>, <<"sendall", "recv">>, t)

\* The `except socket.timeout` branch: close the socket and raise.
calibration_timeout(t) ==
    Raise("CalibrationTimeout", "timeout", <<>>, <<"sendall", "recv", "close">>,
          sock_close(t))

get_calibration_info(conn, t, arrive) ==
    IF ~conn THEN calibration_not_connected(t)
    ELSE IF t.sock # "connected"
    THEN Raise("OSError", "none", <<>>, <<"sendall">>, t)
    ELSE LET r == sock_recv(sock_sendall(t, construct_command(CALIBRATION_CODE)), arrive)
             p == parse_calibration(r.data)
         IN  IF r.kind = "timeout" THEN calibration_timeout(r.t)
             ELSE IF ~p.ok
             THEN Raise(p.err, "data", r.data, <<"sendall", "recv">>, r.t)
             ELSE Outcome("return", "none", None, None, p.cal,
                          "data", r.data, <<"sendall", "recv">>, r.t)

\* --------------------------------------------------------------- get_data
\* A count read as an unsigned integer.
raw_value_unsigned(data, offset, i) ==
    FromBytesAcc(Slice(data, offset + i * 2, offset + i * 2 + 2), 0)

\* The i-th (0-based) signed 16-bit count at the given byte offset.
raw_value(data, offset, i) ==
    int_from_bytes(Slice(data, offset + i * 2, offset + i * 2 + 2))

\* raw_value * scaling_factor / counts_per_unit (true division).
convert(r, s, c) == Rat(r * s, c)

\* A bias step that subtracts whatever the raw flag says.
bias_correct_always(v, b, raw) == RatSub(v, b)

\* A bias step with the wrong sign.
bias_correct_add(v, b, raw) == IF raw THEN v ELSE RatAdd(v, b)

\* `if not raw: F[i] -= self.F_bias[i]`
bias_correct(v, b, raw) == IF raw THEN v ELSE RatSub(v, b)

\* One of the two decode loops.  scaling[i] is read before the division, so a
\* missing factor raises first, then a None divisor, then a zero divisor.
decode_axes(data, offset, scaling, counts, bias, raw) ==
    IF Len(scaling) < 3 THEN [ok |-> FALSE, err |-> "IndexError", v |-> None]
    ELSE IF counts = None THEN [ok |-> FALSE, err |-> "TypeError", v |-> None]
    ELSE IF counts[1] = 0 THEN [ok |-> FALSE, err |-> "ZeroDivisionError", v |-> None]
    ELSE [ok |-> TRUE, err |-> "none",
          v |-> [i \in 1..3 |->
                   bias_correct(convert(raw_value(data, offset, i - 1),
                                        scaling[i], counts[1]),
                                bias[i], raw)]]

\* Both loops: force first, then torque.
decode(data, c, b, raw) ==
    LET f == decode_axes(data, F_BYTE_OFFSET, c.scaling_factors_F,
                         c.counts_per_force, b.F, raw)
        q == decode_axes(data, T_BYTE_OFFSET, c.scaling_factors_T,
                         c.counts_per_torque, b.T, raw)
    IN  IF ~f.ok THEN [ok |-> FALSE, err |-> f.err, F |-> None, T |-> None]
        ELSE IF ~q.ok THEN [ok |-> FALSE, err |-> q.err, F |-> None, T |-> None]
        ELSE [ok |-> TRUE, err |-> "none", F |-> f.v, T |-> q.v]

\* A get_data without the connected check: it goes on to sendall.
get_data_not_connected_sends(t) ==
    Raise("OSError", "none", <<>>, <<"sendall">>, t)

\* The `if not self.connected` branch: return None, None.
get_data_not_connected(t) ==
    Outcome("return", "none", None, None, None, "none", <<>>, <<>>, t)

\* A sample timeout handler that treats the timeout as fatal.
get_data_timeout_fatal(t) ==
    Raise("SampleTimeout", "timeout", <<>>, <<"sendall", "recv", "close">>,
          sock_close(t))

\* The `except socket.timeout` branch: return None, None.
get_data_timeout(t) ==
    Outcome("return", "none", None, None, None, "timeout", <<>>,
            <<"sendall", "recv">>, t)

get_data(conn, t, c, b, raw, arrive) ==
    IF ~conn THEN get_data_not_connected(t)
    ELSE IF t.sock # "connected"
    THEN Raise("OSError", "none", <<>>, <<"sendall">>, t)
    ELSE LET r == sock_recv(sock_sendall(t, construct_command(SAMPLE_CODE)), arrive)
             d == decode(r.data, c, b, raw)
         IN  IF r.kind = "timeout" THEN get_data_timeout(r.t)
             ELSE IF ~d.ok
             THEN Raise(d.err, "data", r.data, <<"sendall", "recv">>, r.t)
             ELSE Outcome("return", "none", d.F, d.T, None,
                          "data", r.data, <<"sendall", "recv">>, r.t)

\* ------------------------------------------------------------ zero_sensor
\* A zero_sensor that reads a bias-corrected sample.
zero_raw_corrected == FALSE

\* The raw argument zero_sensor passes to get_data.
zero_raw == TRUE

\* zero_sensor: the get_data outcome, then F.copy() (AttributeError on None),
\* then both bias assignments.  bias is the bias it leaves.
zero_sensor(conn, t, c, b, arrive) ==
    LET g == get_data(conn, t, c, b, zero_raw, arrive)
    IN  IF g.ret = "raise" THEN [out |-> g, bias |-> b]
        ELSE IF g.F = None
        THEN [out |-> Raise("AttributeError", g.rcv, g.data, g.io, g.t), bias |-> b]
        ELSE [out |-> Outcome("return", "none", None, None, None,
                              g.rcv, g.data, g.io, g.t),
              bias |-> [F |-> g.F, T |-> g.T]]

\* ------------------------------------------------------------ the calls
\* The record of a call: the method, its raw argument, and its outcome.
CallOf(op, raw, o, io) ==
    [op |-> op, raw |-> raw, ret |-> o.ret, err |-> o.err, F |-> o.F, T |-> o.T,
     cal |-> o.cal, rcv |-> o.rcv, data |-> o.data, io |-> io]

NoOutcome(t) == Outcome("return", "none", None, None, None, "none", <<>>, <<>>, t)

\* The application goes on calling until MaxSends commands are on the wire.
CanCall == Len(sent) < MaxSends

\* What a call starts from: the call before it, the bias, the calibration
\* fields, the commands sent, and what is unanswered or unread on the socket.
Remember ==
    prev' = [call |-> call, F_bias |-> F_bias, T_bias |-> T_bias, cal |-> calvars,
             sent |-> sent, pending |-> pending, rxbuf |-> rxbuf]

SetTransport(t) ==
    /\ sock' = t.sock
    /\ sent' = t.sent
    /\ pending' = t.pending
    /\ rxbuf' = t.rxbuf

Init ==
    /\ connected = FALSE
    /\ sock = "created"
    /\ F_bias = Zero3
    /\ T_bias = Zero3
    /\ scaling_factors_F = <<>>
    /\ scaling_factors_T = <<>>
    /\ force_units = None
    /\ torque_units = None
    /\ counts_per_force = None
    /\ counts_per_torque = None
    /\ sent = <<>>
    /\ pending = <<>>
    /\ rxbuf = <<>>
    /\ call = CallOf("__init__", FALSE, NoOutcome(<<>>), <<>>)
    /\ prev = [call |-> CallOf("__init__", FALSE, NoOutcome(<<>>), <<>>),
               F_bias |-> Zero3, T_bias |-> Zero3,
               cal |-> <<<<>>, <<>>, None, None, None, None>>,
               sent |-> <<>>, pending |-> <<>>, rxbuf |-> <<>>]

\* __enter__ when sock.connect raises: the peer refuses, or the socket is
\* already connected or closed.  Nothing after the connect runs.
EnterConnectFails ==
    /\ CanCall
    /\ call' = CallOf("__enter__", FALSE,
                      Raise("OSError", "none", <<>>, <<>>, Transport), <<"connect">>)
    /\ Remember
    /\ UNCHANGED <<connected, calvars, biasvars, netvars>>

\* __enter__ when sock.connect succeeds: settimeout, connected = True, then
\* get_calibration_info(), whose tuple is assigned only if it returns.
EnterConnectsFrom(arrivals) ==
    /\ sock = "created"
    /\ \E arrive \in arrivals :
         LET o == get_calibration_info(TRUE, [Transport EXCEPT !.sock = "connected"],
                                       arrive)
         IN  /\ connected' = TRUE
             /\ SetTransport(o.t)
             /\ IF o.ret = "return"
                THEN /\ force_units' = Some(o.cal[1])
                     /\ torque_units' = Some(o.cal[2])
                     /\ counts_per_force' = Some(o.cal[3])
                     /\ counts_per_torque' = Some(o.cal[4])
                     /\ scaling_factors_F' = o.cal[5]
                     /\ scaling_factors_T' = o.cal[6]
                ELSE UNCHANGED calvars
             /\ call' = CallOf("__enter__", FALSE, o, <<"connect", "settimeout">> \o o.io)
    /\ Remember
    /\ UNCHANGED biasvars

EnterConnects == CanCall /\ EnterConnectsFrom(Arrivals(Transport, 1))

Enter == EnterConnectFails \/ EnterConnects

\* __exit__: close the socket if self.connected.
Exit ==
    /\ IF connected
       THEN /\ SetTransport(sock_close(Transport))
            /\ call' = CallOf("__exit__", FALSE, NoOutcome(<<>>), <<"close">>)
       ELSE /\ UNCHANGED netvars
            /\ call' = CallOf("__exit__", FALSE, NoOutcome(<<>>), <<>>)
    /\ Remember
    /\ UNCHANGED <<connected, calvars, biasvars>>

\* get_calibration_info() called by the application: the tuple is returned,
\* not stored.
GetCalibrationInfo ==
    /\ CanCall
    /\ \E arrive \in Arrivals(Transport, 1) :
         LET o == get_calibration_info(connected, Transport, arrive)
         IN  /\ SetTransport(o.t)
             /\ call' = CallOf("get_calibration_info", FALSE, o, o.io)
    /\ Remember
    /\ UNCHANGED <<connected, calvars, biasvars>>

\* A get_data whose F and T alias the bias lists (F = self.F_bias) instead of
\* being fresh lists: the decode loops then write the sample into the bias.
GetDataAliasesBias ==
    /\ CanCall
    /\ \E raw \in BOOLEAN, arrive \in Arrivals(Transport, 0) :
         LET o == get_data(connected, Transport, Calibration, Bias, raw, arrive)
         IN  /\ SetTransport(o.t)
             /\ F_bias' = IF o.F # None THEN o.F ELSE F_bias
             /\ T_bias' = IF o.T # None THEN o.T ELSE T_bias
             /\ call' = CallOf("get_data", raw, o, o.io)
    /\ Remember
    /\ UNCHANGED <<connected, calvars>>

\* get_data(raw), the device delivering one of `arrivals` while recv blocks.
GetDataFrom(arrivals) ==
    /\ \E raw \in BOOLEAN, arrive \in arrivals :
         LET o == get_data(connected, Transport, Calibration, Bias, raw, arrive)
         IN  /\ SetTransport(o.t)
             /\ call' = CallOf("get_data", raw, o, o.io)
    /\ Remember
    /\ UNCHANGED <<connected, calvars, biasvars>>

GetData == CanCall /\ GetDataFrom(Arrivals(Transport, 0))

\* zero_sensor(), the device delivering one of `arrivals` while recv blocks.
ZeroSensorFrom(arrivals) ==
    /\ \E arrive \in arrivals :
         LET z == zero_sensor(connected, Transport, Calibration, Bias, arrive)
         IN  /\ SetTransport(z.out.t)
             /\ F_bias' = z.bias.F
             /\ T_bias' = z.bias.T
             /\ call' = CallOf("zero_sensor", zero_raw, z.out, z.out.io)
    /\ Remember
    /\ UNCHANGED <<connected, calvars>>

ZeroSensor == CanCall /\ ZeroSensorFrom(Arrivals(Transport, 0))

\* The device answers its oldest unanswered command after the call that sent
\* it has given up waiting; the answer stays in the socket's receive buffer.
DeviceRespond ==
    /\ sock = "connected"
    /\ pending # <<>>
    /\ \E fr \in Replies(Head(pending)) :
         /\ rxbuf' = rxbuf \o fr
         /\ pending' = Tail(pending)
    /\ UNCHANGED <<connected, calvars, biasvars, sock, sent, call, prev>>

Next ==
    \/ Enter
    \/ Exit
    \/ GetCalibrationInfo
    \/ GetData
    \/ ZeroSensor
    \/ DeviceRespond

Spec == Init /\ [][Next]_vars

\* ------------------------------------------- the decoding specification
\* The parse and the decode as functions of the bytes received: the same
\* methods, on a device that answers every command in time, with responses
\* drawn from wider sets (negative values, both extremes of int16, trailing
\* bytes).
Int16Bytes == {<<0, 100>>, <<255, 254>>, <<128, 0>>, <<127, 255>>}

DecodeSampleFrames ==
    {SampleFrame1, SampleFrame2 \o <<7, 7>>}
    \cup {<<9, 9, 9, 9>> \o a \o <<0, 3>> \o <<255, 255>> \o <<0, 50>> \o a \o <<1, 44>> :
             a \in Int16Bytes}

DecodeCalFrames ==
    {CalFrameA}
    \cup {<<18, 52>> \o u \o cpf \o <<255, 255, 255, 252>>
             \o <<0, 10>> \o f \o <<0, 5>> \o <<0, 1>> \o f \o <<0, 10>> \o <<99>> :
             u \in {<<1, 2>>, <<5, 255>>},
             cpf \in {<<0, 0, 3, 232>>, <<255, 255, 255, 254>>, <<0, 0, 0, 4>>},
             f \in {<<255, 253>>, <<0, 7>>}}

CanDecode == Len(sent) < MaxDecodeSends

EnterDecode == CanDecode /\ EnterConnectsFrom(DecodeCalFrames)
GetDataDecode == CanDecode /\ GetDataFrom(DecodeSampleFrames)
ZeroSensorDecode == CanDecode /\ ZeroSensorFrom(DecodeSampleFrames)

NextDecode ==
    \/ EnterDecode
    \/ GetDataDecode
    \/ ZeroSensorDecode

SpecDecode == Init /\ [][NextDecode]_vars

\* ================================================================ claims
SampleCall == {"get_data", "zero_sensor"}
CalibrationCall == {"__enter__", "get_calibration_info"}

C2_ConnectedImpliesCalibrated ==
    connected =>
        /\ force_units # None /\ torque_units # None
        /\ counts_per_force # None /\ counts_per_torque # None
        /\ Len(scaling_factors_F) = 3 /\ Len(scaling_factors_T) = 3

\* ---------------------------------------------------------------- C3
\* C3: once the socket has been closed (by __exit__ or by a fatal calibration
\* error) the driver is Disconnected, in that state and in every later one.
C3_ClosedImpliesDisconnected == sock = "closed" => ~connected

\* ---------------------------------------------------------------- C4
\* C4: whenever a call on a driver whose transport was acquired surfaces an
\* error to the caller, the transport has been closed.
C4_ErrorClosesTransport == (connected /\ call.ret = "raise") => sock = "closed"

\* ---------------------------------------------------------------- C5
\* C5: when the recv of a calibration negotiation times out, the call raises
\* CalibrationTimeout, the socket is closed, and exactly one command (the
\* calibration command) was sent by the call.
C5_CalibrationTimeoutFatal ==
    (call.op \in CalibrationCall /\ call.rcv = "timeout") =>
        /\ call.ret = "raise"
        /\ call.err = "CalibrationTimeout"
        /\ sock = "closed"
        /\ sent = Append(prev.sent, construct_command(CALIBRATION_CODE))

C5_Witness == call.op = "__enter__" /\ call.rcv = "timeout"

\* ---------------------------------------------------------------- C6
\* C6: when the recv of get_data times out, get_data returns (None, None)
\* without raising, the driver stays Connected and the socket stays open.
C6_SampleTimeoutNonFatal ==
    (call.op = "get_data" /\ call.rcv = "timeout") =>
        /\ call.ret = "return"
        /\ call.F = None /\ call.T = None
        /\ connected
        /\ sock = "connected"

\* A get_data that timed out, followed by a get_data that returned a sample.
C6_Witness ==
    /\ prev.call.op = "get_data" /\ prev.call.rcv = "timeout"
    /\ call.op = "get_data" /\ call.ret = "return" /\ call.F # None

\* ---------------------------------------------------------------- C7
\* C7: when the read under zero_sensor times out, zero_sensor ends the way
\* get_data ends on a timeout, and the bias is left as it was.
C7_ZeroTimeoutLikeRead ==
    (call.op = "zero_sensor" /\ call.rcv = "timeout") =>
        /\ call.ret = get_data_timeout(Transport).ret
        /\ call.err = get_data_timeout(Transport).err
        /\ F_bias = prev.F_bias /\ T_bias = prev.T_bias

\* ---------------------------------------------------------------- C8
ZeroThenCorrectedRead ==
    /\ prev.call.op = "zero_sensor" /\ prev.call.ret = "return"
    /\ call.op = "get_data" /\ ~call.raw /\ call.ret = "return" /\ call.F # None
    /\ call.data = prev.call.data

\* C8: a corrected get_data that follows a successful zero_sensor and receives
\* the same bytes returns all-zero force and torque.
C8_ZeroThenReadIsZero == ZeroThenCorrectedRead => (call.F = Zero3 /\ call.T = Zero3)

C8_Witness == ZeroThenCorrectedRead /\ F_bias # Zero3 /\ T_bias # Zero3

\* ---------------------------------------------------------------- C9
\* The unbiased conversion of the counts in data at the given offset.
Unbiased(data, offset, scaling, counts) ==
    [i \in 1..3 |-> convert(raw_value(data, offset, i - 1), scaling[i], counts[1])]

ZeroSucceeded == call.op = "zero_sensor" /\ call.ret = "return"

\* C9: a successful zero_sensor leaves exactly the unbiased conversion of the
\* bytes it received as the bias, whatever the bias was before; so a second
\* zero_sensor on the same bytes leaves the bias of the first.
C9_ZeroReplacesBias ==
    ZeroSucceeded =>
        /\ F_bias = Unbiased(call.data, F_BYTE_OFFSET, scaling_factors_F, counts_per_force)
        /\ T_bias = Unbiased(call.data, T_BYTE_OFFSET, scaling_factors_T, counts_per_torque)
        /\ (prev.call.op = "zero_sensor" /\ prev.call.ret = "return"
              /\ prev.call.data = call.data) =>
             (F_bias = prev.F_bias /\ T_bias = prev.T_bias)

\* Two successful zero_sensor calls on the same bytes, the second starting
\* from the nonzero bias the first one left.
C9_Witness ==
    /\ ZeroSucceeded
    /\ prev.call.op = "zero_sensor" /\ prev.call.ret = "return"
    /\ prev.call.data = call.data
    /\ prev.F_bias # Zero3

\* ---------------------------------------------------------------- C10
\* Bias states a second run may be in.
OtherBias ==
    {[F |-> Zero3, T |-> Zero3],
     [F |-> <<<<1, 1>>, <<1, 1>>, <<1, 1>>>>, T |-> <<<<1, 4>>, <<1, 4>>, <<1, 4>>>>],
     [F |-> <<<<-1, 50>>, <<3, 100>>, Zero>>, T |-> <<<<1, 200>>, <<-1, 200>>, <<3, 2>>>>]}

RawRead == call.op = "get_data" /\ call.raw /\ call.ret = "return" /\ call.F # None

\* C10: what a raw get_data returned is what it returns, on the same bytes and
\* calibration, in a run that differs only in the bias.
C10_RawIgnoresBias ==
    RawRead =>
        \A b \in OtherBias :
            LET d == decode(call.data, Calibration, b, TRUE)
            IN  d.ok /\ d.F = call.F /\ d.T = call.T

\* A raw read on a driver that has been zeroed to a nonzero bias.
C10_Witness == RawRead /\ F_bias # Zero3 /\ T_bias # Zero3

\* ---------------------------------------------------------------- C11
\* The call put a command on the wire.
CallSent == sent # prev.sent

\* C11: a call sends a command only when every command sent before it has
\* been answered and the answer read (or the connection closed): nothing is
\* unanswered and nothing is unread when the call starts.
C11_NoPipelining == CallSent => (prev.pending = <<>> /\ prev.rxbuf = <<>>)

\* ---------------------------------------------------------------- C12
\* The divisors a calibration response carries.
ResponseDivisors(data) ==
    << int_from_bytes(Slice(data, 4, 8)), int_from_bytes(Slice(data, 8, 12)) >>

Malformed(data) ==
    \/ Len(data) < 24
    \/ ResponseDivisors(data)[1] = 0
    \/ ResponseDivisors(data)[2] = 0

\* C12: a negotiation that receives a response shorter than 24 bytes, or one
\* with a zero divisor, fails, and populates no calibration field.
C12_MalformedRejected ==
    (call.op = "__enter__" /\ call.rcv = "data" /\ Malformed(call.data)) =>
        /\ call.ret = "raise"
        /\ calvars = prev.cal

\* ---------------------------------------------------------------- C13
\* C13: once negotiation has populated the calibration (only __enter__ assigns
\* counts_per_force), counts_per_force and counts_per_torque are present and
\* nonzero.
C13_DivisorsNonZero ==
    counts_per_force # None =>
        /\ counts_per_torque # None
        /\ counts_per_force[1] # 0 /\ counts_per_torque[1] # 0

\* ---------------------------------------------------------------- C14
\* A decode of received bytes would divide by a zero counts-per-unit.
ZeroDivisorDecode ==
    /\ call.op = "get_data" /\ call.rcv = "data"
    /\ Len(scaling_factors_F) = 3 /\ Len(scaling_factors_T) = 3
    /\ counts_per_force # None /\ counts_per_torque # None
    /\ (counts_per_force[1] = 0 \/ counts_per_torque[1] = 0)

\* C14: a get_data that meets a zero divisor raises InvalidCalibration.
C14_ZeroDivisorGuarded ==
    ZeroDivisorDecode => (call.ret = "raise" /\ call.err = "InvalidCalibration")

\* ---------------------------------------------------------------- C15
\* C15: get_calibration_info called before the driver is connected raises
\* NotConnected, closes the socket (its only socket call) and sends nothing.
C15_CalibrationBeforeConnect ==
    (call.op = "get_calibration_info" /\ ~connected) =>
        /\ call.ret = "raise"
        /\ call.err = "NotConnected"
        /\ call.io = <<"close">>
        /\ sock = "closed"
        /\ sent = prev.sent

C15_Witness == call.op = "get_calibration_info" /\ ~connected /\ sock = "closed"

\* ---------------------------------------------------------------- C16
\* An opcode byte followed by 19 zero bytes.
IsCommand(message, opcode) ==
    /\ Len(message) = MESSAGE_LENGTH
    /\ message[1] = opcode
    /\ \A j \in 2..Len(message) : message[j] = 0

\* C16: every command sent is 20 bytes, opcode then zeros; a negotiation
\* sends opcode 1 and a sample read or zeroing sends opcode 0.
C16_CommandFormat ==
    /\ \A k \in 1..Len(sent) : IsCommand(sent[k], 0) \/ IsCommand(sent[k], 1)
    /\ (CallSent /\ call.op \in CalibrationCall) =>
          (Len(sent) = Len(prev.sent) + 1 /\ IsCommand(sent[Len(sent)], 1))
    /\ (CallSent /\ call.op \in SampleCall) =>
          (Len(sent) = Len(prev.sent) + 1 /\ IsCommand(sent[Len(sent)], 0))

\* Both kinds of command have been sent.
C16_Witness ==
    /\ Len(sent) >= 2
    /\ sent[1] = <<1, 0, 0, 0, 0, 0, 0, 0, 0, 0, 0, 0, 0, 0, 0, 0, 0, 0, 0, 0>>
    /\ sent[2] = <<0, 0, 0, 0, 0, 0, 0, 0, 0, 0, 0, 0, 0, 0, 0, 0, 0, 0, 0, 0>>

\* ---------------------------------------------------------------- C19
InitialCalibration == <<<<>>, <<>>, None, None, None, None>>

\* C19: a get_data call, whatever its outcome, leaves the calibration fields
\* and the bias as they were.  The calibration fields change only in an
\* __enter__ and only from their initial values; the bias changes only in a
\* zero_sensor, and is all zeros after construction.
C19_ReadPreservesState ==
    /\ call.op = "get_data" =>
          (calvars = prev.cal /\ F_bias = prev.F_bias /\ T_bias = prev.T_bias)
    /\ calvars # prev.cal =>
          (call.op = "__enter__" /\ prev.cal = InitialCalibration)
    /\ (F_bias # prev.F_bias \/ T_bias # prev.T_bias) => call.op = "zero_sensor"
    /\ call.op = "__init__" => (F_bias = Zero3 /\ T_bias = Zero3)

\* A read that timed out and then a corrected read that returned a sample, on
\* a calibrated driver with a nonzero bias.
C19_Witness ==
    /\ prev.call.op = "get_data" /\ prev.call.rcv = "timeout"
    /\ call.op = "get_data" /\ ~call.raw /\ call.ret = "return" /\ call.F # None
    /\ counts_per_force # None
    /\ F_bias # Zero3

\* ---------------------------------------------------------------- C20
\* C20: the bytes a get_data or zero_sensor call decodes are the device's
\* answer to the command that call sent: when the call started, no earlier
\* command was unanswered and no earlier answer was unread.
C20_OwnResponse ==
    (call.op \in SampleCall /\ call.rcv = "data") =>
        (prev.pending = <<>> /\ prev.rxbuf = <<>>)

\* ---------------------------------------------------------------- C17
\* Two bytes as a signed 16-bit big-endian integer.
S16(hi, lo) == IF hi >= 128 THEN (hi - 256) * 256 + lo ELSE hi * 256 + lo

\* The physical value of axis i (1..3) of the counts that start at byte
\* offset `offset`: counts * scaling / divisor, less the bias unless raw.
Physical(data, offset, i, scaling, counts, bias, raw) ==
    LET r == S16(data[offset + 2 * (i - 1) + 1], data[offset + 2 * (i - 1) + 2])
        v == Rat(r * scaling[i], counts[1])
    IN  IF raw THEN v ELSE RatSub(v, bias[i])

SampleReturned ==
    call.op = "get_data" /\ call.ret = "return" /\ call.F # None /\ Len(call.data) >= 16

\* Divisors 1000, force scaling 10, torque scaling 5; counts 100 and 50.
C17_Example ==
    /\ SampleReturned /\ call.raw
    /\ counts_per_force = Some(1000) /\ counts_per_torque = Some(1000)
    /\ scaling_factors_F = <<10, 10, 10>> /\ scaling_factors_T = <<5, 5, 5>>
    /\ Slice(call.data, 4, 16) = <<0, 100, 0, 100, 0, 100, 0, 50, 0, 50, 0, 50>>

\* C17: a returned sample is, per axis, the signed 16-bit big-endian count at
\* offsets 4,6,8 (force) and 10,12,14 (torque) times the axis's scaling factor
\* over the divisor, less the bias exactly when raw is false; the example
\* gives force 1 and torque 1/4 on every axis.
C17_DecodeFormula ==
    /\ SampleReturned =>
         \A i \in 1..3 :
            /\ call.F[i] = Physical(call.data, 4, i, scaling_factors_F,
                                    counts_per_force, F_bias, call.raw)
            /\ call.T[i] = Physical(call.data, 10, i, scaling_factors_T,
                                    counts_per_torque, T_bias, call.raw)
    /\ C17_Example =>
         /\ call.F = <<<<1, 1>>, <<1, 1>>, <<1, 1>>>>
         /\ call.T = <<<<1, 4>>, <<1, 4>>, <<1, 4>>>>

\* The example, read raw on a driver that has been zeroed.
C17_Witness == C17_Example /\ F_bias # Zero3

\* ---------------------------------------------------------------- C18
\* Four bytes as a signed 32-bit big-endian integer.
S32(b1, b2, b3, b4) ==
    ((IF b1 >= 128 THEN b1 - 256 ELSE b1) * 256 + b2) * 65536 + b3 * 256 + b4

\* The calibration tuple laid out in a response of at least 24 bytes.
Layout(d) ==
    << d[3], d[4],
       S32(d[5], d[6], d[7], d[8]),
       S32(d[9], d[10], d[11], d[12]),
       << S16(d[13], d[14]), S16(d[15], d[16]), S16(d[17], d[18]) >>,
       << S16(d[19], d[20]), S16(d[21], d[22]), S16(d[23], d[24]) >> >>

CalibrationReturned ==
    call.op \in CalibrationCall /\ call.ret = "return" /\ Len(call.data) >= 24

C18_Example ==
    /\ CalibrationReturned /\ call.op = "__enter__"
    /\ Slice(call.data, 0, 24) =
          <<0, 0, 1, 2, 0, 0, 3, 232, 0, 0, 3, 232,
            0, 10, 0, 10, 0, 10, 0, 5, 0, 5, 0, 5>>

\* C18: a negotiation that returns on a response of at least 24 bytes yields
\* the fields at the documented offsets, and __enter__ stores them; the
\* example frame gives units 1 and 2, divisors 1000 and 1000, force scaling
\* [10,10,10] and torque scaling [5,5,5].
C18_CalibrationLayout ==
    /\ CalibrationReturned => call.cal = Layout(call.data)
    /\ (CalibrationReturned /\ call.op = "__enter__") =>
          /\ force_units = Some(Layout(call.data)[1])
          /\ torque_units = Some(Layout(call.data)[2])
          /\ counts_per_force = Some(Layout(call.data)[3])
          /\ counts_per_torque = Some(Layout(call.data)[4])
          /\ scaling_factors_F = Layout(call.data)[5]
          /\ scaling_factors_T = Layout(call.data)[6]
    /\ C18_Example =>
          /\ force_units = Some(1) /\ torque_units = Some(2)
          /\ counts_per_force = Some(1000) /\ counts_per_torque = Some(1000)
          /\ scaling_factors_F = <<10, 10, 10>>
          /\ scaling_factors_T = <<5, 5, 5>>

C18_Witness == C18_Example /\ counts_per_force = Some(1000)

====
